---- MODULE Spec2Model ----
(***************************************************************************)
(* Model of src/save.rs: the SavePreferences command (dirty-flag gate,     *)
(* walk over the world's resources, temp-file + rename commit) and the     *)
(* reflective encoder store_prop / save_struct / save_enum.                *)
(*                                                                         *)
(* Numbers are kept as four 16-bit limbs, most significant first, because  *)
(* the u64 / i64 boundary 2^63 is what the encoder tests.                  *)
(***************************************************************************)
EXTENDS Integers, Sequences, FiniteSets, TLC

(***************************************************************************)
(* Bounds                                                                  *)
(***************************************************************************)
\* Largest number of resources in the world.
MaxObjects == 2

\* Largest number of entries of the table store_prop is applied to.
MaxTableKeys == 1

(***************************************************************************)
(* 64-bit arithmetic on limbs                                              *)
(***************************************************************************)
LimbMax == 2^16 - 1

Zero64 == <<0, 0, 0, 0>>

\* i64::MAX = 2^63 - 1
I64_MAX == <<2^15 - 1, LimbMax, LimbMax, LimbMax>>

\* 2^63
Two63 == <<2^15, 0, 0, 0>>

\* u64::MAX = 2^64 - 1
U64_MAX == <<LimbMax, LimbMax, LimbMax, LimbMax>>

RECURSIVE LexLeq(_, _, _)
LexLeq(a, b, i) ==
  IF i > Len(a) THEN TRUE
  ELSE IF a[i] < b[i] THEN TRUE
  ELSE IF a[i] > b[i] THEN FALSE
  ELSE LexLeq(a, b, i + 1)

\* a <= b on unsigned 64-bit values
Leq64(a, b) == LexLeq(a, b, 1)

RECURSIVE Inc64(_, _)
Inc64(a, i) ==
  IF i = 0 THEN a
  ELSE IF a[i] < LimbMax THEN [a EXCEPT ![i] = a[i] + 1]
  ELSE Inc64([a EXCEPT ![i] = 0], i - 1)

\* 2^64 - a, for a # 0
Neg64(a) == Inc64([i \in 1..4 |-> LimbMax - a[i]], 4)

\* `x as i64` of an unsigned 64-bit pattern: the bits are kept, so a pattern
\* with the top bit set reads as the negative number x - 2^64.
AsI64(mag) ==
  IF mag[1] >= 2^15 THEN [neg |-> TRUE, mag |-> Neg64(mag)]
  ELSE [neg |-> FALSE, mag |-> mag]

(***************************************************************************)
(* toml::Value and toml::Table                                             *)
(***************************************************************************)
TString(s) == [t |-> "String", str |-> s]

TInteger(n) == [t |-> "Integer", neg |-> n.neg, mag |-> n.mag]

TFloat(neg, mag, exp) == [t |-> "Float", neg |-> neg, mag |-> mag, exp |-> exp]

TTable(tab) == [t |-> "Table", tab |-> tab]

\* toml::Table::new()
NewTable == <<>>

\* Table::insert: adds or replaces the entry at k
Insert(table, k, v) ==
  [x \in DOMAIN table \cup {k} |-> IF x = k THEN v ELSE table[x]]

Has(table, k) == k \in DOMAIN table

(***************************************************************************)
(* Reflected values (what reflect_ref() shows of a value)                  *)
(***************************************************************************)
CompositeShapes == {"Struct", "TupleStruct", "Tuple", "List", "Array", "Map", "Set"}

IntTypes == {"i8", "i16", "i32", "i64", "u8", "u16", "u32"}

Opaque(ty, neg, mag, exp, str) ==
  [shape |-> "Opaque", ty |-> ty, neg |-> neg, mag |-> mag, exp |-> exp, str |-> str]

Unsigned(ty, mag) == Opaque(ty, FALSE, mag, 0, "")

Signed(ty, neg, mag) == Opaque(ty, neg, mag, 0, "")

Float(ty, neg, mag, exp) == Opaque(ty, neg, mag, exp, "")

Str(s) == Opaque("String", FALSE, Zero64, 0, s)

StructVal(names, fields) == [shape |-> "Struct", names |-> names, fields |-> fields]

TupleStructVal(fields) == [shape |-> "TupleStruct", fields |-> fields]

\* A value of a shape the encoder has no branch for.
Container(shape) == [shape |-> shape]

EnumVal(path, group, key, variant, vtype, fields) ==
  [shape |-> "Enum", type_path |-> path, group |-> group, key |-> key,
   variant |-> variant, vtype |-> vtype, fields |-> fields]

OptionPath == <<"core::option::Option", "<T>">>

SomeVal(v) == EnumVal(OptionPath, <<>>, <<>>, "Some", "Tuple", <<v>>)

NoneVal == EnumVal(OptionPath, <<>>, <<>>, "None", "Unit", <<>>)

\* str::starts_with on type paths kept as token sequences
StartsWith(path, prefix) ==
  /\ Len(prefix) <= Len(path)
  /\ \A i \in 1..Len(prefix) : path[i] = prefix[i]

(***************************************************************************)
(* Results of the encoder: the table, the diagnostics logged by warn!, and *)
(* whether a todo!() / unwrap() panicked (the call then never returns).    *)
(***************************************************************************)
Ok(table, warns) == [table |-> table, warns |-> warns, panicked |-> FALSE]

Panic(table, warns) == [table |-> table, warns |-> warns, panicked |-> TRUE]

(***************************************************************************)
(* store_prop and the walkers                                              *)
(***************************************************************************)
\* Faulty variant of U64Fits: the bound is off by one, so 2^63 passes.
U64FitsOffByOne(mag) == Leq64(mag, Two63)

\* `*i <= i64::MAX as u64`
U64Fits(mag) == Leq64(mag, I64_MAX)

\* `*i <= i64::MAX as usize` (64-bit target: usize is 64 bits wide)
UsizeFits(mag) == Leq64(mag, I64_MAX)

\* The ReflectRef::Opaque arm: the chain of try_downcast_ref probes.
store_opaque(value, key, table) ==
  IF value.ty \in {"f32", "f64"}
    THEN Ok(Insert(table, key, TFloat(value.neg, value.mag, value.exp)), <<>>)
  ELSE IF value.ty \in IntTypes
    THEN Ok(Insert(table, key, TInteger([neg |-> value.neg, mag |-> value.mag])), <<>>)
  ELSE IF value.ty = "u64"
    THEN IF U64Fits(value.mag)
           THEN Ok(Insert(table, key, TInteger(AsI64(value.mag))), <<>>)
           ELSE Ok(table, <<"u64 value too large">>)
  ELSE IF value.ty = "usize"
    THEN IF UsizeFits(value.mag)
           THEN Ok(Insert(table, key, TInteger(AsI64(value.mag))), <<>>)
           ELSE Ok(table, <<"usize value too large">>)
  ELSE IF value.ty = "String"
    THEN Ok(Insert(table, key, TString(value.str)), <<>>)
  ELSE Ok(table, <<"Unsupported type">>)

\* Faulty variant of IsSome: the variant name is misspelt, so no value is Some.
IsSomeMisspelt(en) == en.variant = "some"

\* `en.variant_name() == "Some"`
IsSome(en) == en.variant = "Some"

\* Variant of store_other_enum that stores the variant's name, as save_enum does.
store_variant_name(en, key, table) == Ok(Insert(table, key, TString(en.variant)), <<>>)

\* The non-Option half of the ReflectRef::Enum arm of store_prop.
store_other_enum(en, key, table) == Ok(table, <<"Unsupported enum type">>)

\* Faulty variant of FieldKey: every field goes under the first field's name.
FieldKeyFirst(strct, i) == strct.names[1]

\* The key save_struct stores field i under: strct.name_at(i)
FieldKey(strct, i) == strct.names[i]

\* What store_prop does with the table save_struct filled.
InsertFieldTable(table, key, field_table) == Insert(table, key, TTable(field_table))

RECURSIVE store_prop(_, _, _)
RECURSIVE save_struct_from(_, _, _)

\* The loop of save_struct from field i on; r is the result so far.
save_struct_from(strct, i, r) ==
  IF r.panicked \/ i > Len(strct.fields) THEN r
  ELSE LET field_reflect == strct.fields[i] IN
    IF field_reflect.shape \in CompositeShapes
      THEN Panic(r.table, r.warns)
      ELSE LET s == store_prop(field_reflect, FieldKey(strct, i), r.table) IN
           save_struct_from(strct, i + 1,
             [table |-> s.table, warns |-> r.warns \o s.warns, panicked |-> s.panicked])

save_struct(strct, table) == save_struct_from(strct, 1, Ok(table, <<>>))

store_prop(value, key, table) ==
  IF value.shape = "Struct"
    THEN LET r == save_struct(value, NewTable) IN
         IF r.panicked THEN Panic(table, r.warns)
         ELSE Ok(InsertFieldTable(table, key, r.table), r.warns)
  ELSE IF value.shape \in CompositeShapes
    THEN Panic(table, <<>>)
  ELSE IF value.shape = "Enum"
    THEN IF StartsWith(value.type_path, <<"core::option::Option">>)
           THEN IF IsSome(value)
                  THEN store_prop(value.fields[1], key, table)
                  ELSE Ok(table, <<>>)
           ELSE store_other_enum(value, key, table)
  ELSE store_opaque(value, key, table)

save_tuple_struct(tuple_struct, key, table) ==
  IF Len(tuple_struct.fields) = 1
    THEN LET field_reflect == tuple_struct.fields[1] IN
         IF field_reflect.shape \in CompositeShapes
           THEN Panic(table, <<>>)
           ELSE store_prop(field_reflect, key, table)
    ELSE Ok(table, <<>>)

save_enum(enum_ref, key, table) ==
  IF enum_ref.vtype # "Unit" THEN Panic(table, <<>>)
  ELSE Ok(Insert(table, key, TString(enum_ref.variant)), <<>>)

\* table.entry(group).or_insert(Table(new)).as_table_mut().unwrap():
\* the unwrap panics when the entry exists and is not a table.
GroupBlocked(table, group) == Has(table, group) /\ table[group].t # "Table"

\* The root table once the group's entry exists.
WithGroup(table, group) ==
  IF Has(table, group) THEN table ELSE Insert(table, group, TTable(NewTable))

\* The result r of writing into the group's sub-table, seen from the root.
Lift(root, group, r) ==
  [table |-> Insert(root, group, TTable(r.table)), warns |-> r.warns,
   panicked |-> r.panicked]

maybe_save_struct(strct, group_attr, key_attr, table) ==
  IF group_attr # <<>>
    THEN IF GroupBlocked(table, group_attr[1]) THEN Panic(table, <<>>)
         ELSE LET root == WithGroup(table, group_attr[1]) IN
              IF key_attr # <<>> THEN Panic(root, <<>>)
              ELSE Lift(root, group_attr[1], save_struct(strct, root[group_attr[1]].tab))
  ELSE IF key_attr # <<>> THEN Panic(table, <<>>)
  ELSE Ok(table, <<>>)

maybe_save_tuple_struct(tuple_struct, group_attr, key_attr, table) ==
  IF group_attr # <<>>
    THEN IF GroupBlocked(table, group_attr[1]) THEN Panic(table, <<>>)
         ELSE LET root == WithGroup(table, group_attr[1]) IN
              IF key_attr # <<>>
                THEN Lift(root, group_attr[1],
                       save_tuple_struct(tuple_struct, key_attr[1], root[group_attr[1]].tab))
                ELSE Panic(root, <<>>)
  ELSE IF key_attr # <<>> THEN save_tuple_struct(tuple_struct, key_attr[1], table)
  ELSE Ok(table, <<>>)

\* Faulty variant of EnumGroup: the PreferencesGroup of the enum is not read.
EnumGroupIgnored(enum_ty) == <<>>

\* Where maybe_save_enum puts the entry: the group's sub-table when the enum
\* type has a PreferencesGroup, else the table it was given.
EnumGroup(enum_ty) == enum_ty.group

maybe_save_enum(enum_ty, enum_ref, table) ==
  IF EnumGroup(enum_ty) # <<>>
    THEN IF GroupBlocked(table, enum_ty.group[1]) THEN Panic(table, <<>>)
         ELSE LET root == WithGroup(table, enum_ty.group[1]) IN
              IF enum_ty.key # <<>>
                THEN Lift(root, enum_ty.group[1],
                       save_enum(enum_ref, enum_ty.key[1], root[enum_ty.group[1]].tab))
                ELSE Panic(root, <<>>)
  ELSE IF enum_ty.key # <<>> THEN save_enum(enum_ref, enum_ty.key[1], table)
  ELSE Ok(table, <<>>)

(***************************************************************************)
(* The body of the loop over world.iter_resources()                        *)
(***************************************************************************)
StatePrefix == <<"bevy_state::state::resources::State<">>

\* The TypeInfo::Enum arm: a resource that is itself an enum.
save_enum_resource(res, table) ==
  IF res.group # <<>> THEN Ok(table, <<"Enums not supported yet">>)
  ELSE IF res.key # <<>> THEN Ok(table, <<"Enums not supported yet">>)
  ELSE Ok(table, <<>>)

\* The State< arm: the wrapper's field 0 is matched on its type info.
save_state(tuple_struct, table) ==
  LET state_reflect == tuple_struct.fields[1] IN
  IF state_reflect.shape \in {"Struct", "TupleStruct"} THEN Panic(table, <<>>)
  ELSE IF state_reflect.shape = "Enum"
    THEN maybe_save_enum(state_reflect, state_reflect, table)
  ELSE Ok(table, <<>>)

save_resource(res, table) ==
  IF ~res.has_type_id \/ ~res.registered THEN Ok(table, <<>>)
  ELSE IF res.info = "Struct"
    THEN IF res.group # <<>> \/ res.key # <<>>
           THEN maybe_save_struct(res.value, res.group, res.key, table)
           ELSE Ok(table, <<>>)
  ELSE IF res.info = "TupleStruct"
    THEN IF res.group # <<>> \/ res.key # <<>>
           THEN maybe_save_tuple_struct(res.value, res.group, res.key, table)
         ELSE IF StartsWith(res.type_path, StatePrefix)
           THEN save_state(res.value, table)
         ELSE Ok(table, <<>>)
  ELSE IF res.info = "Enum"
    THEN save_enum_resource(res, table)
  ELSE Ok(table, <<>>)

(***************************************************************************)
(* Table::to_string: the TOML text, kept as its set of lines.  A scalar    *)
(* entry is the line `key = value` under the header of its table, a nested *)
(* table is its `[path]` header followed by its own lines.                 *)
(***************************************************************************)
RECURSIVE Lines(_, _)
Lines(table, path) ==
  UNION { IF table[k].t = "Table"
            THEN {[path |-> Append(path, k), val |-> [t |-> "Header"]]}
                 \cup Lines(table[k].tab, Append(path, k))
            ELSE {[path |-> Append(path, k), val |-> table[k]]}
          : k \in DOMAIN table }

to_string(table) == Lines(table, <<>>)

(***************************************************************************)
(* The resources a world may hold                                          *)
(***************************************************************************)
Res(tname, info, group, key, path, value) ==
  [tname |-> tname, has_type_id |-> TRUE, registered |-> TRUE, info |-> info,
   group |-> group, key |-> key, type_path |-> path, value |-> value]

F32(mag, exp) == Float("f32", FALSE, <<0, 0, 0, mag>>, exp)

U32(n) == Unsigned("u32", <<0, 0, 0, n>>)

\* A user enum `Quality` (unit variants only) and its attributes.
Quality(group, key, variant) ==
  EnumVal(<<"game::Quality">>, group, key, variant, "Unit", <<>>)

\* A user enum whose current variant carries data.
Shape(group, key) ==
  EnumVal(<<"game::Shape">>, group, key, "Circle", "Tuple", <<F32(1, 0)>>)

StateOf(tname, en) ==
  Res(tname, "TupleStruct", <<>>, <<>>, StatePrefix \o <<tname, ">">>, TupleStructVal(<<en>>))

Video(w, h) ==
  Res("Video", "Struct", <<"video">>, <<>>, <<"game::Video">>,
      StructVal(<<"width", "height">>, <<U32(w), U32(h)>>))

Audio(vol, big) ==
  Res("Audio", "Struct", <<"audio">>, <<>>, <<"game::Audio">>,
      StructVal(<<"volume", "samples", "quality">>,
                <<vol, Unsigned("u64", big), Quality(<<>>, <<>>, "High")>>))

Catalogue ==
  { Video(1920, 1080), Video(1280, 720),
    Audio(NoneVal, U64_MAX), Audio(SomeVal(F32(8, -1)), I64_MAX),
    Res("Title", "TupleStruct", <<>>, <<"video">>, <<"game::Title">>,
        TupleStructVal(<<Str("a")>>)),
    Res("Tags", "Struct", <<"video">>, <<>>, <<"game::Tags">>,
        StructVal(<<"title", "names">>, <<Str("a"), Container("List")>>)),
    Res("Keyed", "Struct", <<>>, <<"keyed">>, <<"game::Keyed">>,
        StructVal(<<"x">>, <<U32(1)>>)),
    Res("Plain", "Struct", <<>>, <<>>, <<"game::Plain">>,
        StructVal(<<"x">>, <<U32(1)>>)),
    Res("Volume", "TupleStruct", <<>>, <<"volume">>, <<"game::Volume">>,
        TupleStructVal(<<F32(8, -1)>>)),
    Res("Gain", "TupleStruct", <<"audio">>, <<"gain">>, <<"game::Gain">>,
        TupleStructVal(<<F32(2, 0)>>)),
    Res("Mute", "TupleStruct", <<"audio">>, <<>>, <<"game::Mute">>,
        TupleStructVal(<<Opaque("bool", FALSE, Zero64, 0, "")>>)),
    Res("Pair", "TupleStruct", <<>>, <<"pair">>, <<"game::Pair">>,
        TupleStructVal(<<F32(1, 0), F32(2, 0)>>)),
    StateOf("Quality", Quality(<<>>, <<"graphics_quality">>, "High")),
    StateOf("Quality", Quality(<<>>, <<"graphics_quality">>, "Low")),
    StateOf("Detail", Quality(<<"video">>, <<"detail">>, "High")),
    StateOf("Theme", Quality(<<"video">>, <<>>, "High")),
    StateOf("Tool", Shape(<<>>, <<"tool">>)),
    StateOf("Screen", StructVal(<<"x">>, <<U32(1)>>)),
    Res("Difficulty", "Enum", <<>>, <<"difficulty">>, <<"game::Quality">>,
        Quality(<<>>, <<"difficulty">>, "High")),
    [Res("Window", "Struct", <<"video">>, <<>>, <<"game::Window">>,
         StructVal(<<"x">>, <<U32(1)>>)) EXCEPT !.registered = FALSE] }

\* The order the resource types were registered in, which is the order
\* iter_resources yields them in.
TypeOrder ==
  <<"Title", "Video", "Audio", "Gain", "Volume", "Quality", "Detail", "Difficulty",
    "Plain", "Pair", "Window", "Tags", "Keyed", "Mute", "Theme", "Tool", "Screen">>

Pos(tname) == CHOOSE i \in DOMAIN TypeOrder : TypeOrder[i] = tname

\* A world holds at most one resource of a type.
Worlds ==
  { w \in UNION { [1..n -> Catalogue] : n \in 0..MaxObjects } :
      \A i, j \in DOMAIN w : i < j => Pos(w[i].tname) < Pos(w[j].tname) }

\* What prefs.toml holds before the first save, when it exists.
OldText == to_string([saved |-> TString("before")])

(***************************************************************************)
(* State                                                                   *)
(***************************************************************************)
VARIABLES
  changed,        \* PreferencesChanged.0, the dirty flag
  world,          \* the resources, in iter_resources order
  fs,             \* the preferences directory: dir, prefs.toml.new, prefs.toml
  pc,             \* where apply() is: idle, walk, mkdir, write, rename, panicked
  mode,           \* `self` of the running or last apply()
  at_entry,       \* changed.0 and prefs.toml as they were when that apply() began
  idx,            \* the resource the walk is at
  table,          \* the toml::Table being assembled
  warns,          \* what the running or last apply() logged with warn!
  outcome,        \* how the last apply() ended
  arg,            \* the arguments of a direct call of store_prop
  ret             \* what that call returned

vars == <<changed, world, fs, pc, mode, at_entry, idx, table, warns, outcome, arg, ret>>

saveVars == <<changed, world, fs, pc, mode, at_entry, idx, table, warns, outcome>>

NoFile == <<>>

Saving == pc \in {"walk", "mkdir", "write", "rename"}

(***************************************************************************)
(* The host                                                                *)
(***************************************************************************)
\* The host changes a preference and raises the flag.
HostMutate(i, o) ==
  /\ pc = "idle"
  /\ i \in DOMAIN world
  /\ o.tname = world[i].tname
  /\ o # world[i]
  /\ world' = [world EXCEPT ![i] = o]
  /\ changed' = TRUE
  /\ UNCHANGED <<fs, pc, mode, at_entry, idx, table, warns, outcome, arg, ret>>

(***************************************************************************)
(* SavePreferences::apply                                                  *)
(***************************************************************************)
\* Faulty variant of GateOpen: the flag is not consulted.
GateAlwaysOpen(chg, m) == TRUE

\* `changed.0 || self == SavePreferences::Always`
GateOpen(chg, m) == chg \/ m = "Always"

\* Faulty variant of FlagAfterGate: the flag is not cleared at the gate.
FlagKeptAtGate(chg) == chg

\* The flag once the gate is passed: `changed.0 = false`
FlagAfterGate(chg) == FALSE

\* The flag when apply() returns from the commit: it is not written again.
FlagAtReturn(chg) == chg

\* The command is applied: the gate, and the set-up of a save that proceeds.
Apply(m) ==
  /\ pc = "idle"
  /\ mode' = m
  /\ at_entry' = [dirty |-> changed, file |-> fs.file]
  /\ IF GateOpen(changed, m)
       THEN /\ changed' = FlagAfterGate(changed)
            /\ table' = NewTable
            /\ warns' = <<>>
            /\ idx' = 1
            /\ pc' = IF Len(world) = 0 THEN "mkdir" ELSE "walk"
            /\ outcome' = "running"
       ELSE /\ outcome' = "noop"
            /\ UNCHANGED <<changed, table, warns, idx, pc>>
  /\ UNCHANGED <<world, fs, arg, ret>>

\* One turn of the loop over the resources.
Walk ==
  /\ pc = "walk"
  /\ LET r == save_resource(world[idx], table) IN
       /\ table' = r.table
       /\ warns' = warns \o r.warns
       /\ IF r.panicked
            THEN /\ pc' = "panicked"
                 /\ outcome' = "panicked"
                 /\ idx' = idx
            ELSE /\ pc' = IF idx = Len(world) THEN "mkdir" ELSE "walk"
                 /\ outcome' = outcome
                 /\ idx' = idx + 1
  /\ UNCHANGED <<changed, world, fs, mode, at_entry, arg, ret>>

\* An early `return` or the end of apply(): the locals are dropped.
Return(how) ==
  /\ pc' = "idle"
  /\ outcome' = how
  /\ changed' = FlagAtReturn(changed)
  /\ table' = NewTable
  /\ idx' = 1
  /\ UNCHANGED <<world, mode, at_entry, warns, arg, ret>>

\* dir_builder.create succeeds
CreateDirOk ==
  /\ pc = "mkdir"
  /\ fs' = [fs EXCEPT !.dir = TRUE]
  /\ pc' = "write"
  /\ UNCHANGED <<changed, world, mode, at_entry, idx, table, warns, outcome, arg, ret>>

\* dir_builder.create fails
CreateDirErr ==
  /\ pc = "mkdir"
  /\ fs' = fs
  /\ Return("mkdir_failed")

\* Faulty variant of WriteTarget: the text is written straight into prefs.toml.
WriteInPlace == "file"

\* The file fs::write writes the text to.
WriteTarget == "new"

\* fs::write(prefs.toml.new) succeeds
WriteOk ==
  /\ pc = "write"
  /\ fs' = [fs EXCEPT ![WriteTarget] = <<to_string(table)>>]
  /\ pc' = "rename"
  /\ UNCHANGED <<changed, world, mode, at_entry, idx, table, warns, outcome, arg, ret>>

\* fs::write fails: the file was not opened, or was truncated and is left
\* with none of the text.
WriteErr ==
  /\ pc = "write"
  /\ \E left \in {fs[WriteTarget], <<{}>>} : fs' = [fs EXCEPT ![WriteTarget] = left]
  /\ Return("write_failed")

\* Faulty variant of Renamed: the file is copied, prefs.toml.new stays.
Copied(f) == [f EXCEPT !.file = f.new]

\* What a successful fs::rename(prefs.toml.new, prefs.toml) leaves.
Renamed(f) == [f EXCEPT !.file = f.new, !.new = NoFile]

RenameOk ==
  /\ pc = "rename"
  /\ fs' = Renamed(fs)
  /\ Return("ok")

RenameErr ==
  /\ pc = "rename"
  /\ fs' = fs
  /\ Return("rename_failed")

(***************************************************************************)
(* The save command in its world                                           *)
(***************************************************************************)
NoCall == <<>>

Init ==
  /\ changed \in BOOLEAN
  /\ world \in Worlds
  /\ fs \in { [dir |-> FALSE, new |-> NoFile, file |-> NoFile],
              [dir |-> TRUE, new |-> NoFile, file |-> <<OldText>>] }
  /\ pc = "idle"
  /\ mode = "IfChanged"
  /\ at_entry = [dirty |-> FALSE, file |-> fs.file]
  /\ idx = 1
  /\ table = NewTable
  /\ warns = <<>>
  /\ outcome = "none"
  /\ arg = NoCall
  /\ ret = NoCall

Next ==
  \/ \E i \in 1..MaxObjects, o \in Catalogue : HostMutate(i, o)
  \/ \E m \in {"IfChanged", "Always"} : Apply(m)
  \/ Walk
  \/ CreateDirOk
  \/ CreateDirErr
  \/ WriteOk
  \/ WriteErr
  \/ RenameOk
  \/ RenameErr

Spec == Init /\ [][Next]_vars

(***************************************************************************)
(* store_prop called on its own, as the unit tests call it                 *)
(***************************************************************************)
U64(mag) == Unsigned("u64", mag)

TestStruct == StructVal(<<"field1", "field2">>, <<F32(31, -1), Str("hello")>>)

BaseValues ==
  { F32(8, -1), Float("f64", TRUE, <<0, 0, 0, 3>>, -2),
    Signed("i8", TRUE, <<0, 0, 0, 1>>), Signed("i16", FALSE, <<0, 0, 0, 300>>),
    Signed("i32", FALSE, <<0, 0, 0, 42>>), Signed("i64", TRUE, Two63),
    Unsigned("u8", <<0, 0, 0, 255>>), Unsigned("u16", <<0, 0, 0, LimbMax>>),
    Unsigned("u32", <<0, 0, LimbMax, LimbMax>>),
    U64(Zero64), U64(<<0, 0, 0, 42>>), U64(<<2^15 - 1, LimbMax, LimbMax, LimbMax - 1>>),
    U64(I64_MAX), U64(Two63), U64(<<2^15, 0, 0, 1>>), U64(U64_MAX),
    Unsigned("usize", <<0, 0, 0, 7>>), Unsigned("usize", I64_MAX),
    Unsigned("usize", Two63), Unsigned("usize", U64_MAX),
    Str("hello"), Opaque("bool", FALSE, Zero64, 0, ""),
    Quality(<<>>, <<>>, "High"), Quality(<<>>, <<"graphics_quality">>, "Low"),
    Shape(<<>>, <<>>),
    TestStruct,
    StructVal(<<>>, <<>>),
    StructVal(<<"a", "b">>, <<NoneVal, U32(7)>>),
    StructVal(<<"a", "b">>, <<U64(U64_MAX), Str("x")>>),
    StructVal(<<"a", "q">>, <<U32(7), Quality(<<>>, <<>>, "High")>>),
    StructVal(<<"a", "flag">>, <<SomeVal(F32(8, -1)), Opaque("bool", FALSE, Zero64, 0, "")>>),
    StructVal(<<"a", "inner">>, <<U32(7), TestStruct>>),
    StructVal(<<"a", "inner">>, <<U32(7), SomeVal(TestStruct)>>),
    StructVal(<<"a", "names">>, <<U32(7), Container("List")>>),
    StructVal(<<"a", "names">>, <<U32(7), SomeVal(Container("List"))>>),
    TupleStructVal(<<U32(7)>>),
    Container("Tuple"), Container("List"), Container("Array"),
    Container("Map"), Container("Set") }

PropValues ==
  BaseValues \cup { SomeVal(v) : v \in BaseValues }
             \cup { NoneVal, SomeVal(NoneVal), SomeVal(SomeVal(U32(7))) }

PropKeys == {"k", "other"}

PropEntries == { TString("old"), TTable([x |-> TString("old")]) }

PropTables ==
  UNION { [ks -> PropEntries] : ks \in { d \in SUBSET PropKeys : Cardinality(d) <= MaxTableKeys } }

InitProp ==
  /\ changed = FALSE
  /\ world = <<>>
  /\ fs = [dir |-> FALSE, new |-> NoFile, file |-> NoFile]
  /\ pc = "idle"
  /\ mode = "IfChanged"
  /\ at_entry = [dirty |-> FALSE, file |-> NoFile]
  /\ idx = 1
  /\ table = NewTable
  /\ warns = <<>>
  /\ outcome = "none"
  /\ arg \in { <<[value |-> v, key |-> "k", table |-> t]>> : v \in PropValues, t \in PropTables }
  /\ ret = NoCall

CallStoreProp ==
  /\ arg # NoCall
  /\ ret = NoCall
  /\ ret' = <<store_prop(arg[1].value, arg[1].key, arg[1].table)>>
  /\ UNCHANGED <<saveVars, arg>>

NextProp == CallStoreProp

SpecProp == InitProp /\ [][NextProp]_vars

(***************************************************************************)
(* Properties of store_prop (checked under SpecProp)                       *)
(***************************************************************************)
Called == ret # NoCall

A == arg[1]

R == ret[1]

IsOption(v) == v.shape = "Enum" /\ StartsWith(v.type_path, <<"core::option::Option">>)

IsOtherEnum(v) == v.shape = "Enum" /\ ~IsOption(v)

IsUnitEnum(v) == IsOtherEnum(v) /\ v.vtype = "Unit"

\* The entries of `after` other than k are those of `before`.
OnlyTouches(before, after, k) ==
  /\ DOMAIN after \ {k} = DOMAIN before \ {k}
  /\ \A x \in DOMAIN before \ {k} : after[x] = before[x]

\* C6 as stated: store_prop applied to a value of a unit-only enumeration type
\* other than Option inserts the current variant's name as a String at the
\* key, also when the value is a field reached by the struct traversal.
C6_UnitEnumStored ==
  Called =>
    /\ IsUnitEnum(A.value) =>
         /\ Has(R.table, A.key)
         /\ R.table[A.key] = TString(A.value.variant)
    /\ A.value.shape = "Struct" =>
         \A i \in DOMAIN A.value.fields :
           IsUnitEnum(A.value.fields[i]) =>
             /\ ~R.panicked
             /\ Has(R.table, A.key)
             /\ R.table[A.key].t = "Table"
             /\ Has(R.table[A.key].tab, A.value.names[i])
             /\ R.table[A.key].tab[A.value.names[i]] = TString(A.value.fields[i].variant)

\* C6 amended: store_prop applied to a value of an enumeration type other than
\* Option inserts nothing: it returns the table as it was and logs
\* "Unsupported enum type"; a field of such a type reached by the struct
\* traversal gets no entry in the struct's nested table.
C6_OtherEnumOmitted ==
  Called =>
    /\ IsOtherEnum(A.value) =>
         /\ ~R.panicked
         /\ R.table = A.table
         /\ R.warns = <<"Unsupported enum type">>
    /\ (A.value.shape = "Struct" /\ ~R.panicked) =>
         \A i \in DOMAIN A.value.fields :
           IsOtherEnum(A.value.fields[i]) =>
             /\ ~Has(R.table[A.key].tab, A.value.names[i])
             /\ \E j \in DOMAIN R.warns : R.warns[j] = "Unsupported enum type"

C6_Witness ==
  /\ Called
  /\ A.value = Quality(<<>>, <<>>, "High")
  /\ A.table = NewTable
  /\ R.table = NewTable
  /\ R.warns # <<>>

IsWideUnsigned(v) == v.shape = "Opaque" /\ v.ty \in {"u64", "usize"}

\* v >= 2^63, read off the top bit
AtLeastTwo63(mag) == mag[1] >= 2^15

\* C7: a u64 or usize value v encoded under key k gives k = Integer(v) when
\* v <= 2^63 - 1; when v >= 2^63 the table is left as it was, a diagnostic is
\* logged and there is no panic.  The inputs hold 2^63 - 1 and 2^63.
C7_UnsignedBoundary ==
  (Called /\ IsWideUnsigned(A.value)) =>
    /\ ~R.panicked
    /\ IF AtLeastTwo63(A.value.mag)
         THEN /\ R.table = A.table
              /\ Len(R.warns) = 1
         ELSE /\ Has(R.table, A.key)
              /\ R.table[A.key] = [t |-> "Integer", neg |-> FALSE, mag |-> A.value.mag]
              /\ OnlyTouches(A.table, R.table, A.key)
              /\ R.warns = <<>>

C7_Witness ==
  /\ Called
  /\ A.value = U64(Two63)
  /\ ~Has(A.table, A.key)
  /\ ~Has(R.table, A.key)
  /\ R.warns = <<"u64 value too large">>

\* C8: encoding Some(v) at k gives exactly what encoding v at k gives, and
\* encoding None at k returns the table as it was.
C8_OptionTransparent ==
  (Called /\ IsOption(A.value)) =>
    IF A.value.variant = "Some"
      THEN R = store_prop(A.value.fields[1], A.key, A.table)
      ELSE /\ ~R.panicked
           /\ R.table = A.table
           /\ R.warns = <<>>

C8_Witness ==
  /\ Called
  /\ A.value = SomeVal(Signed("i32", FALSE, <<0, 0, 0, 42>>))
  /\ A.table = NewTable
  /\ R.table = [k |-> [t |-> "Integer", neg |-> FALSE, mag |-> <<0, 0, 0, 42>>]]

\* The encoding of one field on its own.
FieldEnc(f, name) == store_prop(f, name, NewTable)

FieldPanics(f) == f.shape \in CompositeShapes \/ FieldEnc(f, "x").panicked

Failed == {"mkdir_failed", "write_failed", "rename_failed"}

\* C1: save(IfChanged) applied while the flag is false does nothing: no walk
\* and no filesystem step starts, the directory's files and the flag are as
\* before; and a save is only ever in progress when the flag was set at its
\* entry or the mode is Always.
C1_NoOpWhenClean ==
  /\ [][(Apply("IfChanged") /\ ~changed) =>
          (pc' = "idle" /\ fs' = fs /\ ~changed' /\ table' = table)]_vars
  /\ [](Saving => (at_entry.dirty \/ mode = "Always"))

C1_Witness ==
  /\ pc = "idle"
  /\ outcome = "noop"
  /\ mode = "IfChanged"
  /\ ~changed
  /\ fs.file = <<OldText>>

\* C2: when the flag was set at entry and the directory creation, the write
\* and the rename all succeed, then on return the flag is false,
\* prefs.toml.new is gone and prefs.toml holds the text of the table
\* assembled by this save.
C2_SavedWhenDirty ==
  [][(pc = "rename" /\ outcome' = "ok" /\ at_entry.dirty) =>
       /\ pc' = "idle"
       /\ ~changed'
       /\ fs'.new = NoFile
       /\ fs'.file = <<to_string(table)>>]_vars

C2_Witness ==
  /\ pc = "idle"
  /\ outcome = "ok"
  /\ at_entry.dirty
  /\ ~changed
  /\ fs.new = NoFile
  /\ fs.file # at_entry.file
  /\ fs.file # <<{}>>

\* C3: prefs.toml changes only in the rename step, which runs only once the
\* directory exists and prefs.toml.new holds the whole text; a failed
\* directory creation, write or rename ends the save at that step with
\* prefs.toml as it was when the save began.
C3_OnlyRenameTouchesTarget ==
  /\ [][fs'.file # fs.file =>
          /\ pc = "rename"
          /\ fs.dir
          /\ fs.new = <<to_string(table)>>
          /\ fs'.file = fs.new]_vars
  /\ [][(pc # "idle" /\ outcome' \in Failed) =>
          (pc' = "idle" /\ fs'.file = fs.file)]_vars
  /\ [](outcome \in Failed => fs.file = at_entry.file)

C3_Witness ==
  /\ pc = "idle"
  /\ outcome = "rename_failed"
  /\ fs.file = <<OldText>>
  /\ fs.new # NoFile
  /\ fs.new # <<{}>>

\* C4 as stated: no set of state objects makes a save that proceeds abort or
\* crash: the walk never panics, so the commit is always reached.
C4_NeverCrashes == pc # "panicked"

Cur == world[idx]

Reflectable(res) == res.has_type_id /\ res.registered

IsStateWrapper(res) ==
  /\ Reflectable(res)
  /\ res.info = "TupleStruct"
  /\ StartsWith(res.type_path, StatePrefix)

KeyedUnitEnum(en) == en.shape = "Enum" /\ en.key # <<>> /\ en.vtype = "Unit"

\* Table t holds the variant's name of en at its Key, inside the sub-table of
\* its Group when it has one.
EnumAt(t, en) ==
  IF en.group # <<>>
    THEN /\ Has(t, en.group[1])
         /\ t[en.group[1]].t = "Table"
         /\ Has(t[en.group[1]].tab, en.key[1])
         /\ t[en.group[1]].tab[en.key[1]] = TString(en.variant)
    ELSE /\ Has(t, en.key[1])
         /\ t[en.key[1]] = TString(en.variant)

\* The root entry at the Group's name of en is there and is not a table.
GroupNameTaken(t, en) ==
  /\ en.group # <<>>
  /\ Has(t, en.group[1])
  /\ t[en.group[1]].t # "Table"

\* C5 as stated: once the walk has met an enumeration with a Key and a unit
\* current variant, be it the resource itself or the field of a State<
\* wrapper, the table holds the variant's name under that Key.
C5_KeyedEnumStored ==
  [][pc = "walk" =>
       /\ (Reflectable(Cur) /\ Cur.info = "Enum" /\ KeyedUnitEnum(Cur.value)) =>
            EnumAt(table', Cur.value)
       /\ (IsStateWrapper(Cur) /\ KeyedUnitEnum(Cur.value.fields[1])) =>
            EnumAt(table', Cur.value.fields[1])]_vars

\* C5 amended: for the field of a State< wrapper the table holds the
\* variant's name under the Key (in the Group's sub-table, else at the root),
\* unless the Group's name is already a non-table root entry, where the walk
\* panics; a resource that is itself an enumeration leaves the table as it
\* was and is only logged.
C5_StateEnumStored ==
  [][pc = "walk" =>
       /\ (IsStateWrapper(Cur) /\ KeyedUnitEnum(Cur.value.fields[1])) =>
            IF GroupNameTaken(table, Cur.value.fields[1])
              THEN pc' = "panicked"
              ELSE pc' # "panicked" /\ EnumAt(table', Cur.value.fields[1])
       /\ (Reflectable(Cur) /\ Cur.info = "Enum") =>
            /\ pc' # "panicked"
            /\ table' = table
            /\ (Cur.group # <<>> \/ Cur.key # <<>>) => Len(warns') = Len(warns) + 1]_vars

C5_Witness ==
  /\ pc \in {"walk", "mkdir"}
  /\ idx > 1
  /\ world[idx - 1] = StateOf("Detail", Quality(<<"video">>, <<"detail">>, "High"))
  /\ Has(table, "video")
  /\ table["video"].t = "Table"
  /\ Has(table["video"].tab, "detail")
  /\ table["video"].tab["detail"] = TString("High")

\* C10: a save that proceeds clears the flag before the walk and before any
\* filesystem step and never sets it again, so the flag is false during the
\* walk, at every filesystem step and on return, also after a failed step;
\* save(IfChanged) applied after a failed save, with the flag not raised
\* again, does nothing.
C10_ClearedBeforeWalk ==
  /\ [](Saving => ~changed)
  /\ [][pc # "idle" => ~changed']_vars
  /\ [][(Apply("IfChanged") /\ outcome \in Failed /\ ~changed) =>
          (pc' = "idle" /\ fs' = fs /\ outcome' = "noop")]_vars

C10_Witness ==
  /\ pc = "idle"
  /\ outcome \in Failed
  /\ at_entry.dirty
  /\ ~changed
  /\ fs.file = at_entry.file
  /\ world # <<>>

====
